---- MODULE Spec2Model ----
(***************************************************************************)
(* A model of the typed-container layer of anndata-rs:                     *)
(*   - DataContainer::open / delete / encoding_type   (backend.rs)         *)
(*   - WriteData::overwrite                           (data_traits.rs)     *)
(*   - BackendData::into_dyn / from_dyn               (backend.rs)         *)
(* over an abstract backend: one open file holding a hierarchy of groups   *)
(* and datasets that carry an optional "encoding_type" string attribute.   *)
(*                                                                         *)
(* A Rust call ends in one of three ways, all kept apart here:             *)
(*   Ok(v)      the Result is Ok                                           *)
(*   Err(m)     the Result is Err: a failure the caller can recover from   *)
(*   Panic(m)   unwrap() on None, or todo!(): no Result reaches the caller *)
(***************************************************************************)
EXTENDS Integers, Sequences, FiniteSets, TLC

VARIABLES store, last

vars == <<store, last>>

(***************************************************************************)
(* Bounds of the model.                                                    *)
(***************************************************************************)
\* The deepest path of the hierarchy, in components below the root.
MaxDepth == 2
\* The most children and grandchildren the file holds at once.
MaxNodes == 2

(***************************************************************************)
(* Results.                                                                *)
(***************************************************************************)
Ok(v) == [tag |-> "Ok", val |-> v]
Err(m) == [tag |-> "Err", msg |-> m]
Panic(m) == [tag |-> "Panic", msg |-> m]

IsOk(r) == r.tag = "Ok"
IsErr(r) == r.tag = "Err"
IsPanic(r) == r.tag = "Panic"

\* The messages of the failures the code raises itself (bail!).
E_NotFound == "No group or dataset named in group"
E_Unsupported == "Unsupported type"
E_ExpectingGroup == "Expecting Group"
E_ExpectingDataset == "Expecting Dataset"
\* The failures a backend operation returns.
E_OpenGroup == "backend: open_group"
E_OpenDataset == "backend: open_dataset"
E_Delete == "backend: delete"
E_Write == "backend: write"
E_Dtype == "backend: dtype"

(***************************************************************************)
(* ScalarType and DataType.                                                *)
(***************************************************************************)
ScalarType ==
  {"I8", "I16", "I32", "I64", "U8", "U16", "U32", "U64", "F32", "F64", "Bool", "String"}

NoType == "na"

Scalar(t) == [k |-> "Scalar", t |-> t]
Array(t) == [k |-> "Array", t |-> t]
CsrMatrix(t) == [k |-> "CsrMatrix", t |-> t]
CscMatrix(t) == [k |-> "CscMatrix", t |-> t]
Categorical == [k |-> "Categorical", t |-> NoType]
DataFrame == [k |-> "DataFrame", t |-> NoType]
Mapping == [k |-> "Mapping", t |-> NoType]

DataType ==
  {Scalar(t) : t \in ScalarType} \cup {Array(t) : t \in ScalarType}
    \cup {CsrMatrix(t) : t \in ScalarType} \cup {CscMatrix(t) : t \in ScalarType}
    \cup {Categorical, DataFrame, Mapping}

(***************************************************************************)
(* The hierarchy of one open file.  A path is the sequence of its          *)
(* components below the root; the root group is the empty sequence.        *)
(***************************************************************************)
Names == {"x", "data"}

RECURSIVE PathsUpTo(_)
PathsUpTo(n) ==
  IF n = 0 THEN {<<>>}
  ELSE PathsUpTo(n - 1) \cup {Append(p, a) : p \in PathsUpTo(n - 1), a \in Names}

Paths == PathsUpTo(MaxDepth)

Root == <<>>

\* The value of the "encoding_type" attribute of a location that has none.
NoAttr == "<absent>"

\* kind: "group", "dataset", "other" (a child that is neither: the name exists
\* and neither open succeeds) or "none" (no such location).
None == [kind |-> "none", tag |-> NoAttr, dtype |-> NoType, val |-> 0]
GroupNode(tag, val) == [kind |-> "group", tag |-> tag, dtype |-> NoType, val |-> val]
DatasetNode(tag, dtype, val) == [kind |-> "dataset", tag |-> tag, dtype |-> dtype, val |-> val]
OtherNode == [kind |-> "other", tag |-> NoAttr, dtype |-> NoType, val |-> 0]

EmptyFile == [p \in Paths |-> IF p = Root THEN GroupNode(NoAttr, 0) ELSE None]

IsPrefix(p, q) == Len(p) <= Len(q) /\ SubSeq(q, 1, Len(p)) = p

NodeCount(s) == Cardinality({p \in Paths : p # Root /\ s[p].kind # "none"})

\* Every location but the root lies in a group.
WellFormed(s) ==
  /\ s[Root].kind = "group"
  /\ \A p \in Paths :
       (p # Root /\ s[p].kind # "none") => s[SubSeq(p, 1, Len(p) - 1)].kind = "group"

(***************************************************************************)
(* std::path::Path on the paths the backend reports.                       *)
(***************************************************************************)
NoPath == [some |-> FALSE, v |-> <<>>]
SomePath(p) == [some |-> TRUE, v |-> p]

\* Path::parent: None for the root, else the path without its last component.
path_parent(p) == IF Len(p) = 0 THEN NoPath ELSE SomePath(SubSeq(p, 1, Len(p) - 1))

\* Path::file_name: None for the root, else the last component (as a path of
\* one component).
path_file_name(p) == IF Len(p) = 0 THEN NoPath ELSE SomePath(<<p[Len(p)]>>)

(***************************************************************************)
(* The backend: GroupOp, LocationOp and DatasetOp on the hierarchy.  A     *)
(* group or dataset handle is the path of its location.                    *)
(***************************************************************************)
NodeAt(s, p) == IF p \in Paths THEN s[p] ELSE None

\* GroupOp::exists
GroupOp_exists(s, g, name) == NodeAt(s, Append(g, name)).kind # "none"

\* GroupOp::open_dataset
GroupOp_open_dataset(s, g, name) ==
  IF NodeAt(s, Append(g, name)).kind = "dataset"
  THEN Ok(Append(g, name)) ELSE Err(E_OpenDataset)

\* GroupOp::open_group on a group, by the name of a child
GroupOp_open_group(s, g, name) ==
  IF NodeAt(s, Append(g, name)).kind = "group"
  THEN Ok(Append(g, name)) ELSE Err(E_OpenGroup)

\* GroupOp::open_group on the file, by a path from the root
File_open_group(s, p) ==
  IF NodeAt(s, p).kind = "group" THEN Ok(p) ELSE Err(E_OpenGroup)

Unit == "()"

\* GroupOp::delete: removes the child and, for a group, all below it.  ioOk is
\* the backend's own success.
GroupOp_delete(s, g, name, ioOk) ==
  IF ioOk /\ GroupOp_exists(s, g, name)
  THEN [res |-> Ok(Unit),
        store |-> [p \in Paths |-> IF IsPrefix(Append(g, name), p) THEN None ELSE s[p]]]
  ELSE [res |-> Err(E_Delete), store |-> s]

\* LocationOp::read_str_attr("encoding_type")
read_str_attr(s, p) ==
  IF NodeAt(s, p).tag = NoAttr THEN Err("backend: read_str_attr") ELSE Ok(NodeAt(s, p).tag)

\* DatasetOp::dtype
DatasetOp_dtype(s, p) ==
  IF NodeAt(s, p).kind = "dataset" THEN Ok(NodeAt(s, p).dtype) ELSE Err(E_Dtype)

(***************************************************************************)
(* DataContainer.                                                          *)
(***************************************************************************)
Group(p) == [kind |-> "Group", path |-> p]
Dataset(p) == [kind |-> "Dataset", path |-> p]

\* The containers that can be held for the locations of the file.
Containers(s) ==
  {Group(p) : p \in {q \in Paths : s[q].kind = "group"}}
    \cup {Dataset(p) : p \in {q \in Paths : s[q].kind = "dataset"}}

\* Result::or: self when it is Ok, else the other.
ResultOr(a, b) == IF IsOk(a) THEN a ELSE b

\* Result::map with each constructor the code maps with.
MapDataset(r) == IF IsOk(r) THEN Ok(Dataset(r.val)) ELSE r
MapGroup(r) == IF IsOk(r) THEN Ok(Group(r.val)) ELSE r

\* open as it would be if a missing name gave an empty group instead of a failure.
DataContainer_open_or_default(s, group, name) ==
  IF GroupOp_exists(s, group, name)
  THEN ResultOr(MapDataset(GroupOp_open_dataset(s, group, name)),
                MapGroup(GroupOp_open_group(s, group, name)))
  ELSE Ok(Group(Append(group, name)))

\* DataContainer::open
DataContainer_open(s, group, name) ==
  IF GroupOp_exists(s, group, name)
  THEN ResultOr(MapDataset(GroupOp_open_dataset(s, group, name)),
                MapGroup(GroupOp_open_group(s, group, name)))
  ELSE Err(E_NotFound)

\* delete as it would be if the leaf name were removed from the root group
\* instead of the group at the path's parent.
DataContainer_delete_from_root(s, container, ioOk) ==
  LET name == container.path IN
  IF ~path_parent(name).some
  THEN [res |-> Panic("unwrap on None: parent"), store |-> s]
  ELSE LET group == File_open_group(s, Root) IN
       IF ~IsOk(group) THEN [res |-> group, store |-> s]
       ELSE GroupOp_delete(s, group.val, path_file_name(name).v[1], ioOk)

\* DataContainer::delete
DataContainer_delete(s, container, ioOk) ==
  LET name == container.path IN
  IF ~path_parent(name).some
  THEN [res |-> Panic("unwrap on None: parent"), store |-> s]
  ELSE LET group == File_open_group(s, path_parent(name).v) IN
       IF ~IsOk(group) THEN [res |-> group, store |-> s]
       ELSE GroupOp_delete(s, group.val, path_file_name(name).v[1], ioOk)

\* DataContainer::as_group
as_group(c) == IF c.kind = "Group" THEN Ok(c.path) ELSE Err(E_ExpectingGroup)

\* as_dataset as it would be if it handed out the location of either variant.
as_dataset_unchecked(c) == Ok(c.path)

\* DataContainer::as_dataset
as_dataset(c) == IF c.kind = "Dataset" THEN Ok(c.path) ELSE Err(E_ExpectingDataset)

\* enc_of as it would be with the two defaults exchanged.
enc_of_defaults_exchanged(s, c) ==
  LET r == read_str_attr(s, c.path) IN
  IF c.kind = "Group"
  THEN (IF IsOk(r) THEN r.val ELSE "numeric-scalar")
  ELSE (IF IsOk(r) THEN r.val ELSE "mapping")

\* The tag encoding_type matches on: the attribute, or the default of the variant
\* when reading the attribute fails.
enc_of(s, c) ==
  LET r == read_str_attr(s, c.path) IN
  IF c.kind = "Group"
  THEN (IF IsOk(r) THEN r.val ELSE "mapping")
  ELSE (IF IsOk(r) THEN r.val ELSE "numeric-scalar")

\* self.as_dataset()?.dtype()?
dataset_dtype(s, c) ==
  IF ~IsOk(as_dataset(c)) THEN as_dataset(c) ELSE DatasetOp_dtype(s, as_dataset(c).val)

\* self.as_group()?.open_dataset("data")?.dtype()?
data_child_dtype(s, c) ==
  IF ~IsOk(as_group(c)) THEN as_group(c)
  ELSE LET d == GroupOp_open_dataset(s, as_group(c).val, "data") IN
       IF ~IsOk(d) THEN d ELSE DatasetOp_dtype(s, d.val)

\* DataType::V(r?): the failure of r, else the logical type over its element type.
OkScalar(r) == IF IsOk(r) THEN Ok(Scalar(r.val)) ELSE r
OkArray(r) == IF IsOk(r) THEN Ok(Array(r.val)) ELSE r
OkCsrMatrix(r) == IF IsOk(r) THEN Ok(CsrMatrix(r.val)) ELSE r

\* encoding_type as it would be with the "array" arm building a Scalar and no
\* "dict" arm.
encoding_type_array_as_scalar(s, c) ==
  LET enc == enc_of(s, c) IN
  CASE enc = "string" -> Ok(Scalar("String"))
    [] enc = "numeric-scalar" -> OkScalar(dataset_dtype(s, c))
    [] enc = "categorical" -> Ok(Categorical)
    [] enc = "string-array" -> Ok(Array("String"))
    [] enc = "array" -> OkScalar(dataset_dtype(s, c))
    [] enc = "csc_matrix" -> Panic("not yet implemented")
    [] enc = "csr_matrix" -> OkCsrMatrix(data_child_dtype(s, c))
    [] enc = "dataframe" -> Ok(DataFrame)
    [] enc = "mapping" -> Ok(Mapping)
    [] OTHER -> Err(E_Unsupported)

\* DataContainer::encoding_type
encoding_type(s, c) ==
  LET enc == enc_of(s, c) IN
  CASE enc = "string" -> Ok(Scalar("String"))
    [] enc = "numeric-scalar" -> OkScalar(dataset_dtype(s, c))
    [] enc = "categorical" -> Ok(Categorical)
    [] enc = "string-array" -> Ok(Array("String"))
    [] enc = "array" -> OkArray(dataset_dtype(s, c))
    [] enc = "csc_matrix" -> Panic("not yet implemented")
    [] enc = "csr_matrix" -> OkCsrMatrix(data_child_dtype(s, c))
    [] enc = "dataframe" -> Ok(DataFrame)
    [] enc \in {"mapping", "dict"} -> Ok(Mapping)
    [] OTHER -> Err(E_Unsupported)

(***************************************************************************)
(* WriteData.  A value to write is its logical type and its payload.       *)
(***************************************************************************)
Value(ty, val) == [ty |-> ty, val |-> val]

\* The encoding tag a write stamps for a logical type.
encoding_tag(ty) ==
  CASE ty.k = "Scalar" -> IF ty.t = "String" THEN "string" ELSE "numeric-scalar"
    [] ty.k = "Array" -> IF ty.t = "String" THEN "string-array" ELSE "array"
    [] ty.k = "Categorical" -> "categorical"
    [] ty.k = "CsrMatrix" -> "csr_matrix"
    [] ty.k = "CscMatrix" -> "csc_matrix"
    [] ty.k = "DataFrame" -> "dataframe"
    [] ty.k = "Mapping" -> "dict"

\* A scalar or an array is one dataset; every other value is a group.
IsDatasetType(ty) == ty.k \in {"Scalar", "Array"}

\* A sparse matrix keeps its elements in the child dataset "data".
HasDataChild(ty) == ty.k \in {"CsrMatrix", "CscMatrix"}

\* The levels a value takes below the group it is written in.
Levels(ty) == IF HasDataChild(ty) THEN 2 ELSE 1

\* The locations of value v written at path p, over store s.
Written(s, p, v) ==
  [q \in Paths |->
     IF q = p
     THEN (IF IsDatasetType(v.ty)
           THEN DatasetNode(encoding_tag(v.ty), v.ty.t, v.val)
           ELSE GroupNode(encoding_tag(v.ty), v.val))
     ELSE IF HasDataChild(v.ty) /\ q = Append(p, "data")
     THEN DatasetNode(NoAttr, v.ty.t, v.val)
     ELSE s[q]]

\* WriteData::write: creates the value under a name that is free in the group; a
\* write that fails creates nothing.  ioOk is the backend's own success.
WriteData_write(s, location, name, v, ioOk) ==
  IF ioOk /\ ~GroupOp_exists(s, location, name)
  THEN [res |-> Ok(IF IsDatasetType(v.ty) THEN Dataset(Append(location, name))
                   ELSE Group(Append(location, name))),
        store |-> Written(s, Append(location, name), v)]
  ELSE [res |-> Err(E_Write), store |-> s]

\* overwrite as it would be if it patched the location in place, deleting nothing.
WriteData_overwrite_in_place(s, container, v, delOk, wrOk) ==
  LET path == container.path IN
  IF ~path_parent(path).some
  THEN [res |-> Panic("unwrap on None: parent"), store |-> s]
  ELSE LET group == File_open_group(s, path_parent(path).v) IN
       IF ~IsOk(group) THEN [res |-> group, store |-> s]
       ELSE IF ~(delOk /\ wrOk) THEN [res |-> Err(E_Write), store |-> s]
       ELSE [res |-> Ok(IF IsDatasetType(v.ty) THEN Dataset(path) ELSE Group(path)),
             store |-> Written(s, path, v)]

\* overwrite as it would be if a failed write put the old content back.
WriteData_overwrite_restoring(s, container, v, delOk, wrOk) ==
  LET path == container.path IN
  IF ~path_parent(path).some
  THEN [res |-> Panic("unwrap on None: parent"), store |-> s]
  ELSE LET group == File_open_group(s, path_parent(path).v) IN
       IF ~IsOk(group) THEN [res |-> group, store |-> s]
       ELSE LET name == path_file_name(path).v[1]
                del == GroupOp_delete(s, group.val, name, delOk)
            IN IF ~IsOk(del.res) THEN del
               ELSE LET w == WriteData_write(del.store, group.val, name, v, wrOk) IN
                    IF IsOk(w.res) THEN w ELSE [res |-> w.res, store |-> s]

\* WriteData::overwrite
WriteData_overwrite(s, container, v, delOk, wrOk) ==
  LET path == container.path IN
  IF ~path_parent(path).some
  THEN [res |-> Panic("unwrap on None: parent"), store |-> s]
  ELSE LET group == File_open_group(s, path_parent(path).v) IN
       IF ~IsOk(group) THEN [res |-> group, store |-> s]
       ELSE LET name == path_file_name(path).v[1]
                del == GroupOp_delete(s, group.val, name, delOk)
            IN IF ~IsOk(del.res) THEN del
               ELSE WriteData_write(del.store, group.val, name, v, wrOk)

(***************************************************************************)
(* The operations on one open file.  last keeps the latest call: its       *)
(* arguments, what the backend answered and what the call returned.        *)
(***************************************************************************)
\* The values the file operations write.
WriteValues ==
  {Value(Scalar("I32"), 42), Value(CsrMatrix("F32"), 9), Value(Mapping, 0)}

\* A file as first opened: new, or written earlier and holding an untagged
\* dataset and a child that is neither a group nor a dataset.
LegacyFile ==
  [EmptyFile EXCEPT ![<<"x">>] = DatasetNode(NoAttr, "F64", 5),
                    ![<<"data">>] = OtherNode]

Init ==
  /\ store \in {EmptyFile, LegacyFile}
  /\ last = [op |-> "create"]

\* The value fits the hierarchy of the model.
Fits(s, g, v) == Len(g) + Levels(v.ty) <= MaxDepth

Groups(s) == {p \in Paths : s[p].kind = "group"}

WriteOp ==
  \E g \in Groups(store), name \in Names, v \in WriteValues :
    /\ Fits(store, g, v)
    /\ LET w == WriteData_write(store, g, name, v, TRUE) IN
       /\ NodeCount(w.store) <= MaxNodes
       /\ store' = w.store
       /\ last' = [op |-> "write", group |-> g, name |-> name, value |-> v, res |-> w.res]

OpenOp ==
  \E g \in Groups(store), name \in Names :
    /\ last' = [op |-> "open", group |-> g, name |-> name,
                res |-> DataContainer_open(store, g, name)]
    /\ UNCHANGED store

DeleteOp ==
  \E c \in Containers(store), ioOk \in BOOLEAN :
    LET d == DataContainer_delete(store, c, ioOk) IN
    /\ store' = d.store
    /\ last' = [op |-> "delete", container |-> c, res |-> d.res]

\* The backend's answers within one overwrite: both calls succeed, the delete
\* fails, or the delete succeeds and the write fails.
OverwriteOp ==
  \E c \in Containers(store), v \in WriteValues, fails \in {"none", "delete", "write"} :
    /\ Len(c.path) - 1 + Levels(v.ty) <= MaxDepth
    /\ LET o == WriteData_overwrite(store, c, v, fails # "delete", fails # "write") IN
       /\ NodeCount(o.store) <= MaxNodes
       /\ store' = o.store
       /\ last' = [op |-> "overwrite", container |-> c, value |-> v,
                   fails |-> fails, res |-> o.res]

Next == WriteOp \/ OpenOp \/ DeleteOp \/ OverwriteOp

Spec == Init /\ [][Next]_vars

(***************************************************************************)
(* Resolution of the logical type, over every tag, variant, element type   *)
(* and "data" child a container can be found with.                         *)
(***************************************************************************)
EncodingTypeOp ==
  \E c \in Containers(store) :
    /\ last' = [op |-> "encoding_type", container |-> c, res |-> encoding_type(store, c)]
    /\ UNCHANGED store

\* The tags encoding_type has an arm for.
KnownTags ==
  {"string", "numeric-scalar", "categorical", "string-array", "array", "csc_matrix",
   "csr_matrix", "dataframe", "mapping", "dict"}

\* Tags it has no arm for.
ForeignTags == {"nullable-integer", "awkward-array", ""}

TagValues == KnownTags \cup ForeignTags \cup {NoAttr}

\* The "data" child of a group: none, a dataset of some element type, or a group.
DataChildren ==
  {None, GroupNode(NoAttr, 0)} \cup {DatasetNode(NoAttr, t, 0) : t \in ScalarType}

\* The root holding one child "x": a dataset, or a group with its "data" child.
EncFiles ==
  {[EmptyFile EXCEPT ![<<"x">>] = DatasetNode(tag, t, 0)] :
     tag \in TagValues, t \in ScalarType}
  \cup {[EmptyFile EXCEPT ![<<"x">>] = GroupNode(tag, 0), ![<<"x", "data">>] = d] :
          tag \in TagValues, d \in DataChildren}

InitEnc ==
  /\ store \in EncFiles
  /\ last = [op |-> "create"]

NextEnc == EncodingTypeOp

SpecEnc == InitEnc /\ [][NextEnc]_vars

(***************************************************************************)
(* Writing a value of every logical type into a new file and resolving it. *)
(***************************************************************************)
Payloads == {0, 1, 42}

TypedValues == {Value(ty, 42) : ty \in DataType}

WriteTypedOp ==
  \E v \in TypedValues :
    LET w == WriteData_write(store, Root, "x", v, TRUE) IN
    /\ store' = w.store
    /\ last' = [op |-> "write", group |-> Root, name |-> "x", value |-> v, res |-> w.res]

InitRT ==
  /\ store = EmptyFile
  /\ last = [op |-> "create"]

NextRT == WriteTypedOp \/ OpenOp \/ EncodingTypeOp \/ DeleteOp

SpecRT == InitRT /\ [][NextRT]_vars

(***************************************************************************)
(* Properties of overwrite, delete and open (specification Spec).          *)
(***************************************************************************)
\* The parent group and the leaf name of a path below the root.
ParentOf(p) == SubSeq(p, 1, Len(p) - 1)
LeafOf(p) == p[Len(p)]

\* The location a value v has at path q when v is written at path p, and None
\* where v has no location.
PartOf(v, p, q) ==
  IF q = p
  THEN [kind |-> IF v.ty.k \in {"Scalar", "Array"} THEN "dataset" ELSE "group",
        tag |-> encoding_tag(v.ty),
        dtype |-> IF v.ty.k \in {"Scalar", "Array"} THEN v.ty.t ELSE NoType,
        val |-> v.val]
  ELSE IF v.ty.k \in {"CsrMatrix", "CscMatrix"} /\ q = Append(p, "data")
  THEN [kind |-> "dataset", tag |-> NoAttr, dtype |-> v.ty.t, val |-> v.val]
  ELSE None

\* C1: after overwrite(container, newValue) returns Ok, the name opens under the
\* same parent group as the container overwrite returned, and everything at and
\* below the name is newValue's (its data, its encoding tag, its children) with
\* nothing of the old content left, whatever the old content was; every other
\* location of the file is as before (the old child was deleted and the new one
\* created under the same leaf name in the same parent group).
C1_OverwriteYieldsNewValue ==
  [][(last'.op = "overwrite" /\ IsOk(last'.res)) =>
       LET p == last'.container.path
           v == last'.value
       IN /\ Len(p) > 0
          /\ DataContainer_open(store', ParentOf(p), LeafOf(p)) = last'.res
          /\ last'.res.val.path = p
          /\ read_str_attr(store', p) = Ok(encoding_tag(v.ty))
          /\ store'[p].val = v.val
          /\ \A q \in Paths :
               store'[q] = IF IsPrefix(p, q) THEN PartOf(v, p, q) ELSE store[q]]_vars

\* An overwrite that replaced a group by a dataset.
C1_Witness ==
  /\ last.op = "overwrite"
  /\ IsOk(last.res)
  /\ last.container = Group(<<"x">>)
  /\ last.value.ty = Scalar("I32")
  /\ store[<<"x">>].val = 42
  /\ store[<<"data">>].kind = "none"

\* C2: when the delete within overwrite succeeded and the write then failed,
\* overwrite returns the write's failure and the name is absent from the parent
\* group: the old value is not restored and the write is not tried again.
C2_FailedWriteLeavesNameAbsent ==
  (last.op = "overwrite" /\ last.fails = "write" /\ Len(last.container.path) > 0) =>
    LET p == last.container.path IN
    /\ last.res = Err(E_Write)
    /\ ~GroupOp_exists(store, ParentOf(p), LeafOf(p))
    /\ DataContainer_open(store, ParentOf(p), LeafOf(p)) = Err(E_NotFound)
    /\ \A q \in Paths : IsPrefix(p, q) => store[q] = None

C2_Witness ==
  /\ last.op = "overwrite"
  /\ last.fails = "write"
  /\ last.container = Dataset(<<"x", "x">>)
  /\ last.res = Err(E_Write)
  /\ store[<<"x">>].kind = "group"

\* C3: after DataContainer::delete returns Ok for a container below the root, the
\* parent group reports the leaf name as not existing and opening it fails with
\* NotFound; what was removed is the child of that leaf name in the group at the
\* path's parent (with all below it), and nothing else.
C3_DeleteRemovesTheNamedChild ==
  [][(last'.op = "delete" /\ IsOk(last'.res)) =>
       LET p == last'.container.path IN
       /\ Len(p) > 0
       /\ ~GroupOp_exists(store', ParentOf(p), LeafOf(p))
       /\ DataContainer_open(store', ParentOf(p), LeafOf(p)) = Err(E_NotFound)
       /\ store[p].kind # "none"
       /\ \A q \in Paths : store'[q] = IF IsPrefix(p, q) THEN None ELSE store[q]]_vars

\* A dataset deleted from a group below the root, the group itself kept.
C3_Witness ==
  /\ last.op = "delete"
  /\ IsOk(last.res)
  /\ last.container = Dataset(<<"x", "x">>)
  /\ store[<<"x">>].kind = "group"
  /\ store[<<"x", "x">>].kind = "none"

\* C4: delete on the container of the file root returns a recoverable failure
\* (an Err) and removes nothing.
C4_DeleteRootReturnsFailure ==
  [][(last'.op = "delete" /\ last'.container.path = Root) =>
       (IsErr(last'.res) /\ store' = store)]_vars

\* C5: open fails with NotFound when the name does not exist in the group; when
\* it exists, open returns the Dataset case if the dataset-open succeeds, else
\* the Group case if the group-open succeeds, else it fails.  A successful open
\* is one of the two cases, for the location of that name.
C5_OpenYieldsOneCaseOrFails ==
  (last.op = "open") =>
    LET g == last.group
        n == last.name
        ds == GroupOp_open_dataset(store, g, n)
        gr == GroupOp_open_group(store, g, n)
    IN /\ ~GroupOp_exists(store, g, n) => last.res = Err(E_NotFound)
       /\ (GroupOp_exists(store, g, n) /\ IsOk(ds)) =>
            last.res = Ok([kind |-> "Dataset", path |-> ds.val])
       /\ (GroupOp_exists(store, g, n) /\ ~IsOk(ds) /\ IsOk(gr)) =>
            last.res = Ok([kind |-> "Group", path |-> gr.val])
       /\ (GroupOp_exists(store, g, n) /\ ~IsOk(ds) /\ ~IsOk(gr)) =>
            (IsErr(last.res) /\ last.res.msg # E_NotFound)
       /\ IsOk(last.res) =>
            /\ last.res.val.kind \in {"Group", "Dataset"}
            /\ last.res.val.path = Append(g, n)
            /\ store[Append(g, n)].kind = (IF last.res.val.kind = "Group" THEN "group" ELSE "dataset")

\* An open that fell back to the group-open, below the root.
C5_Witness ==
  /\ last.op = "open"
  /\ last.group = Root
  /\ last.res = Ok(Group(<<"x">>))
  /\ store[<<"data">>].kind = "other"

(***************************************************************************)
(* Properties of encoding_type (specification SpecEnc).                    *)
(***************************************************************************)
\* The attribute and the variant of the container last resolved.
LastTag == store[last.container.path].tag
LastIsGroup == last.container.kind = "Group"
LastIsDataset == last.container.kind = "Dataset"
LastDtype == store[last.container.path].dtype
LastDataChild == NodeAt(store, Append(last.container.path, "data"))

\* C6: encoding_type maps the encoding-type attribute through the fixed lookup:
\* "string" to Scalar(String), "numeric-scalar" to Scalar(element type of the
\* dataset), "categorical" to Categorical, "string-array" to Array(String),
\* "array" to Array(element type of the dataset), "csr_matrix" to CsrMatrix(element
\* type of the group's "data" child dataset), "dataframe" to DataFrame, "mapping"
\* and "dict" to Mapping; a tag it has no arm for fails with "Unsupported type".
C6_EncodingLookup ==
  (last.op = "encoding_type") =>
    /\ LastTag = "string" => last.res = Ok(Scalar("String"))
    /\ (LastTag = "numeric-scalar" /\ LastIsDataset) => last.res = Ok(Scalar(LastDtype))
    /\ LastTag = "categorical" => last.res = Ok(Categorical)
    /\ LastTag = "string-array" => last.res = Ok(Array("String"))
    /\ (LastTag = "array" /\ LastIsDataset) => last.res = Ok(Array(LastDtype))
    /\ (LastTag = "csr_matrix" /\ LastIsGroup /\ LastDataChild.kind = "dataset") =>
         last.res = Ok(CsrMatrix(LastDataChild.dtype))
    /\ LastTag = "dataframe" => last.res = Ok(DataFrame)
    /\ LastTag \in {"mapping", "dict"} => last.res = Ok(Mapping)
    /\ LastTag \notin (KnownTags \cup {NoAttr}) => last.res = Err(E_Unsupported)

\* A group tagged "csr_matrix" whose "data" child holds 32-bit floats.
C6_Witness ==
  /\ last.op = "encoding_type"
  /\ last.container = Group(<<"x">>)
  /\ LastTag = "csr_matrix"
  /\ LastDataChild = DatasetNode(NoAttr, "F32", 0)
  /\ last.res = Ok(CsrMatrix("F32"))

C8_CscIsRecoverableFailure ==
  (last.op = "encoding_type" /\ LastTag = "csc_matrix") => IsErr(last.res)

(***************************************************************************)
(* Write, reopen, resolve (specification SpecRT).                          *)
(***************************************************************************)
\* C9: for every logical type (Scalar(t), Array(t), Categorical, CsrMatrix(t),
\* CscMatrix(t), DataFrame, Mapping, t one of the 12 scalar types), a value of
\* that type written under a name reopens as a container that encoding_type
\* resolves to the same logical type, and holds the payload written.
C9_WriteThenResolve ==
  (last.op = "write" /\ IsOk(last.res)) =>
    LET c == DataContainer_open(store, last.group, last.name) IN
    /\ IsOk(c)
    /\ encoding_type(store, c.val) = Ok(last.value.ty)
    /\ store[c.val.path].val = last.value.val

\* The same for every logical type but CscMatrix(t).
WriteThenResolveButCsc ==
  (last.op = "write" /\ IsOk(last.res) /\ last.value.ty.k # "CscMatrix") =>
    LET c == DataContainer_open(store, last.group, last.name) IN
    /\ IsOk(c)
    /\ encoding_type(store, c.val) = Ok(last.value.ty)
    /\ store[c.val.path].val = last.value.val

(***************************************************************************)
(* BackendData: the twelve implementations, one per Rust scalar type.      *)
(***************************************************************************)
RustTypes ==
  {"i8", "i16", "i32", "i64", "u8", "u16", "u32", "u64", "f32", "f64", "String", "bool"}

\* DynScalar: the variant and the payload it holds.
DynScalar(variant, x) == [variant |-> variant, val |-> x]

\* BackendData::DTYPE
DTYPE(T) ==
  CASE T = "i8" -> "I8"
    [] T = "i16" -> "I16"
    [] T = "i32" -> "I32"
    [] T = "i64" -> "I64"
    [] T = "u8" -> "U8"
    [] T = "u16" -> "U16"
    [] T = "u32" -> "U32"
    [] T = "u64" -> "U64"
    [] T = "f32" -> "F32"
    [] T = "f64" -> "F64"
    [] T = "String" -> "String"
    [] T = "bool" -> "Bool"

\* BackendData::into_dyn
into_dyn(T, v) ==
  CASE T = "i8" -> DynScalar("I8", v)
    [] T = "i16" -> DynScalar("I16", v)
    [] T = "i32" -> DynScalar("I32", v)
    [] T = "i64" -> DynScalar("I64", v)
    [] T = "u8" -> DynScalar("U8", v)
    [] T = "u16" -> DynScalar("U16", v)
    [] T = "u32" -> DynScalar("U32", v)
    [] T = "u64" -> DynScalar("U64", v)
    [] T = "f32" -> DynScalar("F32", v)
    [] T = "f64" -> DynScalar("F64", v)
    [] T = "String" -> DynScalar("String", v)
    [] T = "bool" -> DynScalar("Bool", v)

\* if let DynScalar::V(x) = x { Ok(x) } else { bail!("Expecting ..") }
IfLet(variant, x, expecting) ==
  IF x.variant = variant THEN Ok(x.val) ELSE Err(expecting)

\* from_dyn as it would be if i64 also took a 32-bit integer, widening it.
from_dyn_widening(T, x) ==
  CASE T = "i8" -> IfLet("I8", x, "Expecting i8")
    [] T = "i16" -> IfLet("I16", x, "Expecting i16")
    [] T = "i32" -> IfLet("I32", x, "Expecting i32")
    [] T = "i64" -> IF x.variant = "I32" THEN Ok(x.val) ELSE IfLet("I64", x, "Expecting i64")
    [] T = "u8" -> IfLet("U8", x, "Expecting u8")
    [] T = "u16" -> IfLet("U16", x, "Expecting u16")
    [] T = "u32" -> IfLet("U32", x, "Expecting u32")
    [] T = "u64" -> IfLet("U64", x, "Expecting u64")
    [] T = "f32" -> IfLet("F32", x, "Expecting f32")
    [] T = "f64" -> IfLet("F64", x, "Expecting f64")
    [] T = "String" -> IfLet("String", x, "Expecting string")
    [] T = "bool" -> IfLet("Bool", x, "Expecting bool")

\* BackendData::from_dyn
from_dyn(T, x) ==
  CASE T = "i8" -> IfLet("I8", x, "Expecting i8")
    [] T = "i16" -> IfLet("I16", x, "Expecting i16")
    [] T = "i32" -> IfLet("I32", x, "Expecting i32")
    [] T = "i64" -> IfLet("I64", x, "Expecting i64")
    [] T = "u8" -> IfLet("U8", x, "Expecting u8")
    [] T = "u16" -> IfLet("U16", x, "Expecting u16")
    [] T = "u32" -> IfLet("U32", x, "Expecting u32")
    [] T = "u64" -> IfLet("U64", x, "Expecting u64")
    [] T = "f32" -> IfLet("F32", x, "Expecting f32")
    [] T = "f64" -> IfLet("F64", x, "Expecting f64")
    [] T = "String" -> IfLet("String", x, "Expecting string")
    [] T = "bool" -> IfLet("Bool", x, "Expecting bool")

ExpectingMessages ==
  {"Expecting i8", "Expecting i16", "Expecting i32", "Expecting i64", "Expecting u8",
   "Expecting u16", "Expecting u32", "Expecting u64", "Expecting f32", "Expecting f64",
   "Expecting string", "Expecting bool"}

\* The dynamic scalars: every variant with every payload.
DynScalars == {DynScalar(variant, x) : variant \in ScalarType, x \in Payloads}

\* Either a value v of type T is at hand, or a dynamic scalar d to convert to T.
InitDyn ==
  /\ store = EmptyFile
  /\ \/ \E T \in RustTypes, v \in Payloads : last = [op |-> "value", T |-> T, v |-> v]
     \/ \E T \in RustTypes, d \in DynScalars : last = [op |-> "dyn", T |-> T, d |-> d]

IntoDynOp ==
  /\ last.op = "value"
  /\ last' = [op |-> "into_dyn", T |-> last.T, v |-> last.v, d |-> into_dyn(last.T, last.v)]
  /\ UNCHANGED store

FromDynOp ==
  /\ last.op \in {"dyn", "into_dyn"}
  /\ last' = [op |-> "from_dyn", T |-> last.T, d |-> last.d, res |-> from_dyn(last.T, last.d)]
  /\ UNCHANGED store

NextDyn == IntoDynOp \/ FromDynOp

SpecDyn == InitDyn /\ [][NextDyn]_vars

\* C10: for each of the 12 scalar types T and every dynamic scalar d, T::from_dyn(d)
\* is Ok exactly when d's variant is the one tagged T::DTYPE and then holds d's
\* payload unchanged; for every other variant it is the type-mismatch failure of
\* T, never a converted number.  So T::from_dyn(v.into_dyn()) is Ok(v): into_dyn
\* yields the variant of T::DTYPE around v.
C10_FromDynIffTagMatches ==
  /\ (last.op = "from_dyn") =>
       /\ IsOk(last.res) <=> last.d.variant = DTYPE(last.T)
       /\ IsOk(last.res) => last.res.val = last.d.val
       /\ ~IsOk(last.res) => (IsErr(last.res) /\ last.res.msg \in ExpectingMessages)
  /\ (last.op = "into_dyn") =>
       /\ last.d = [variant |-> DTYPE(last.T), val |-> last.v]
       /\ from_dyn(last.T, last.d) = Ok(last.v)

\* i64::from_dyn(DynScalar::I32(1)) has failed.
C10_Witness ==
  /\ last.op = "from_dyn"
  /\ last.T = "i64"
  /\ last.d = DynScalar("I32", 1)
  /\ last.res = Err("Expecting i64")

(***************************************************************************)
(* DatasetOp::read_array with a Selection, on a dataset holding an array.  *)
(***************************************************************************)
\* The largest coordinate a selection asks for, on any axis.
MaxCoord == 4
\* The most points of a selection.
MaxPoints == 2

\* The shapes of the arrays read: 3 x 4, 2 x 2 and a vector of 3.
Shapes == {<<3, 4>>, <<2, 2>>, <<3>>}

\* The multi-indices of an array of a shape (zero-based).
\* The extents are below 10.
Indices(shape) ==
  {c \in [1..Len(shape) -> 0..9] : \A a \in 1..Len(shape) : c[a] < shape[a]}

\* The element at c holds the digits of c.
RECURSIVE ElementAt(_)
ElementAt(c) == IF Len(c) = 0 THEN 0 ELSE 10 * ElementAt(SubSeq(c, 1, Len(c) - 1)) + c[Len(c)]

\* A dataset holding an array of a shape, every element distinct.
ArrayOf(shape) == [shape |-> shape, data |-> [c \in Indices(shape) |-> ElementAt(c)]]

\* Selection::All and Selection::Points: the rows of the Array2<usize>.
SelAll == [kind |-> "All", points |-> <<>>]
SelPoints(points) == [kind |-> "Points", points |-> points]

\* A coordinate lies within the array on every axis.
InBounds(shape, c) == Len(c) = Len(shape) /\ \A a \in 1..Len(shape) : c[a] < shape[a]

\* The smaller of two numbers.
Min(a, b) == IF a < b THEN a ELSE b

\* The elements of an array in row-major order.
RECURSIVE RowMajor(_, _)
RowMajor(arr, prefix) ==
  IF Len(prefix) = Len(arr.shape) THEN <<arr.data[prefix]>>
  ELSE LET n == arr.shape[Len(prefix) + 1]
           F[i \in 0..n] ==
             IF i = 0 THEN <<>> ELSE F[i - 1] \o RowMajor(arr, Append(prefix, i - 1))
       IN F[n]

E_OutOfBounds == "backend: selection out of bounds"

\* read_array as it would be if a coordinate beyond the array were clamped to the
\* last index of its axis.
read_array_clamping(arr, selection) ==
  IF selection.kind = "All" THEN Ok(RowMajor(arr, <<>>))
  ELSE Ok([i \in 1..Len(selection.points) |->
             arr.data[[a \in 1..Len(arr.shape) |->
                         Min(selection.points[i][a], arr.shape[a] - 1)]]])

\* DatasetOp::read_array: the whole array, or one element for each point asked
\* for, in the order asked; a point beyond the array on some axis is rejected.
read_array(arr, selection) ==
  IF selection.kind = "All" THEN Ok(RowMajor(arr, <<>>))
  ELSE IF \E i \in 1..Len(selection.points) : ~InBounds(arr.shape, selection.points[i])
  THEN Err(E_OutOfBounds)
  ELSE Ok([i \in 1..Len(selection.points) |-> arr.data[selection.points[i]]])

\* The coordinates a selection of rank n can ask for, within the array or not.
Coords(n) == [1..n -> 0..MaxCoord]

RECURSIVE PointLists(_, _)
PointLists(n, k) ==
  IF k = 0 THEN {<<>>}
  ELSE PointLists(n, k - 1)
         \cup {Append(ps, c) : ps \in PointLists(n, k - 1), c \in Coords(n)}

InitSel ==
  /\ store = EmptyFile
  /\ \E shape \in Shapes :
       \E selection \in {SelAll} \cup {SelPoints(ps) : ps \in PointLists(Len(shape), MaxPoints)} :
         last = [op |-> "dataset", arr |-> ArrayOf(shape), selection |-> selection]

ReadArrayOp ==
  /\ last.op = "dataset"
  /\ last' = [op |-> "read_array", arr |-> last.arr, selection |-> last.selection,
              res |-> read_array(last.arr, last.selection)]
  /\ UNCHANGED store

NextSel == ReadArrayOp

SpecSel == InitSel /\ [][NextSel]_vars

\* C11: a read restricted to a list of points fails when some coordinate asked for
\* is at or beyond the array's extent on its axis (it is rejected, not clamped);
\* with every coordinate in range it returns one element for each point, the
\* element at that point, in the order asked, repeated and reordered points
\* included.
C11_PointsReadInRequestOrder ==
  (last.op = "read_array" /\ last.selection.kind = "Points") =>
    LET ps == last.selection.points
        shape == last.arr.shape
    IN /\ (\E i \in 1..Len(ps) : \E a \in 1..Len(shape) : ps[i][a] >= shape[a]) =>
            IsErr(last.res)
       /\ (\A i \in 1..Len(ps) : \A a \in 1..Len(shape) : ps[i][a] < shape[a]) =>
            /\ IsOk(last.res)
            /\ Len(last.res.val) = Len(ps)
            /\ \A i \in 1..Len(ps) : last.res.val[i] = last.arr.data[ps[i]]

\* [[0,0],[2,3]] read from the 3 x 4 array.
C11_Witness ==
  /\ last.op = "read_array"
  /\ last.arr.shape = <<3, 4>>
  /\ last.selection = SelPoints(<<<<0, 0>>, <<2, 3>>>>)
  /\ last.res = Ok(<<0, 23>>)

(***************************************************************************)
(* ArrayOp::select_axis on an array in memory and ReadArrayData::read_axis *)
(* on an array kept in a container.                                        *)
(***************************************************************************)
\* SelectInfoElem: the entire axis, or a list of indices along it.
SelFull == [kind |-> "full", idx |-> <<>>]
SelIndex(idx) == [kind |-> "index", idx |-> idx]

RECURSIVE IndexLists(_)
IndexLists(k) ==
  IF k = 0 THEN {<<>>}
  ELSE IndexLists(k - 1) \cup {Append(l, i) : l \in IndexLists(k - 1), i \in 0..MaxCoord}

\* The selectors of one axis: indices within the axis or beyond it.
SelectInfoElems == {SelFull} \cup {SelIndex(l) : l \in IndexLists(MaxPoints)}

\* Shape::ndim
ndim(shape) == Len(shape)

\* SelectInfoElem::set_axis: a selection of ndim selectors, this one at the axis
\* (zero-based) and full at every other.
set_axis(elem, axis, n, full) == [a \in 1..n |-> IF a - 1 = axis THEN elem ELSE full]

\* The indices a selector takes along an axis of an extent.
AxisIndices(elem, extent) ==
  IF elem.kind = "full" THEN [i \in 1..extent |-> i - 1] ELSE elem.idx

\* ArrayOp::select: a new array of the selected elements; a selection of another
\* rank, or an index beyond an axis, panics.
select(arr, info) ==
  IF Len(info) # Len(arr.shape) THEN Panic("selection of another rank")
  ELSE IF \E a \in 1..Len(info) : \E i \in 1..Len(AxisIndices(info[a], arr.shape[a])) :
            AxisIndices(info[a], arr.shape[a])[i] >= arr.shape[a]
  THEN Panic("index out of bounds")
  ELSE LET shape == [a \in 1..Len(info) |-> Len(AxisIndices(info[a], arr.shape[a]))]
       IN Ok([shape |-> shape,
              data |-> [c \in Indices(shape) |->
                          arr.data[[a \in 1..Len(info) |->
                                      AxisIndices(info[a], arr.shape[a])[c[a] + 1]]]]])

\* select_axis as it would be if the selector went to the first axis whatever
\* the axis asked for.
select_axis_first_axis(arr, axis, slice) ==
  LET full == SelFull
      selection == set_axis(slice, 0, ndim(arr.shape), full)
  IN [info |-> selection, res |-> select(arr, selection)]

\* ArrayOp::select_axis; info is the selection handed to select.
select_axis(arr, axis, slice) ==
  LET full == SelFull
      selection == set_axis(slice, axis, ndim(arr.shape), full)
  IN [info |-> selection, res |-> select(arr, selection)]

\* ReadArrayData::get_shape; ioOk is the backend's own success.
get_shape(arr, ioOk) == IF ioOk THEN Ok(arr.shape) ELSE Err("backend: shape")

\* ReadArrayData::read_select: the selected elements, read from the container; a
\* selection beyond the array fails.
read_select(arr, info) ==
  IF IsOk(select(arr, info)) THEN select(arr, info) ELSE Err(E_OutOfBounds)

\* read_axis as it would be if it took every array for a matrix instead of
\* inspecting the shape.
read_axis_rank_two(arr, axis, slice, ioOk) ==
  LET full == SelFull
      selection == set_axis(slice, axis, 2, full)
  IN [calls |-> <<"read_select">>, info |-> selection, res |-> read_select(arr, selection)]

\* ReadArrayData::read_axis; calls are the calls it made on the container and
\* info the selection handed to read_select.
read_axis(arr, axis, slice, ioOk) ==
  LET shape == get_shape(arr, ioOk) IN
  IF ~IsOk(shape) THEN [calls |-> <<"get_shape">>, info |-> <<>>, res |-> shape]
  ELSE LET full == SelFull
           selection == set_axis(slice, axis, ndim(shape.val), full)
       IN [calls |-> <<"get_shape", "read_select">>, info |-> selection,
           res |-> read_select(arr, selection)]

InitArr ==
  /\ store = EmptyFile
  /\ \E shape \in Shapes : last = [op |-> "array", arr |-> ArrayOf(shape)]

SelectOp ==
  \E info \in [1..Len(last.arr.shape) -> SelectInfoElems] :
    /\ last.op = "array"
    /\ last' = [op |-> "select", arr |-> last.arr, info |-> info, res |-> select(last.arr, info)]
    /\ UNCHANGED store

SelectAxisOp ==
  \E axis \in 0..(Len(last.arr.shape) - 1), slice \in SelectInfoElems :
    LET r == select_axis(last.arr, axis, slice) IN
    /\ last.op = "array"
    /\ last' = [op |-> "select_axis", arr |-> last.arr, axis |-> axis, slice |-> slice,
                info |-> r.info, res |-> r.res]
    /\ UNCHANGED store

ReadAxisOp ==
  \E axis \in 0..(Len(last.arr.shape) - 1), slice \in SelectInfoElems, ioOk \in BOOLEAN :
    LET r == read_axis(last.arr, axis, slice, ioOk) IN
    /\ last.op = "array"
    /\ last' = [op |-> "read_axis", arr |-> last.arr, axis |-> axis, slice |-> slice,
                ioOk |-> ioOk, calls |-> r.calls, info |-> r.info, res |-> r.res]
    /\ UNCHANGED store

NextArr == SelectOp \/ SelectAxisOp \/ ReadAxisOp

SpecArr == InitArr /\ [][NextArr]_vars

\* The selection of a rank with selector elem at the axis and full elsewhere.
Padded(elem, axis, rank) ==
  [a \in 1..rank |-> IF a = axis + 1 THEN elem ELSE [kind |-> "full", idx |-> <<>>]]

\* C12: for any array and any axis below its rank, select_axis(axis, full) is the
\* array unchanged, and a selection that is full on every axis of the array is
\* the array; select_axis hands select the selection of length shape().ndim()
\* with the given selector at the axis and full at every other, and returns what
\* select returns.
C12_SelectAxisPadsWithFull ==
  /\ (last.op = "select_axis") =>
       /\ last.info = Padded(last.slice, last.axis, Len(last.arr.shape))
       /\ last.res = select(last.arr, last.info)
       /\ last.slice.kind = "full" => last.res = Ok(last.arr)
  /\ (last.op = "select" /\ \A a \in 1..Len(last.info) : last.info[a].kind = "full") =>
       last.res = Ok(last.arr)

\* Rows 2 and 0 of the 3 x 4 array, every column.
C12_Witness ==
  /\ last.op = "select_axis"
  /\ last.arr.shape = <<3, 4>>
  /\ last.axis = 0
  /\ last.slice = SelIndex(<<2, 0>>)
  /\ IsOk(last.res)
  /\ last.res.val.shape = <<2, 4>>
  /\ last.res.val.data[<<0, 3>>] = 23
  /\ last.res.val.data[<<1, 0>>] = 0

\* C13: read_axis inspects the shape of the container before it pads: what it
\* returns is read_select of the selection whose length is the rank of the shape
\* inspected, with the selector at the axis and full elsewhere; when inspecting
\* the shape fails it returns that failure and calls no read_select.
C13_ReadAxisRederivesRank ==
  (last.op = "read_axis") =>
    /\ last.ioOk =>
         /\ last.calls = <<"get_shape", "read_select">>
         /\ last.info = Padded(last.slice, last.axis, Len(last.arr.shape))
         /\ last.res = read_select(last.arr, last.info)
    /\ ~last.ioOk =>
         /\ last.calls = <<"get_shape">>
         /\ last.res = Err("backend: shape")

\* Elements 1 and 1 again of the vector of 3.
C13_Witness ==
  /\ last.op = "read_axis"
  /\ last.arr.shape = <<3>>
  /\ last.axis = 0
  /\ last.slice = SelIndex(<<1, 1>>)
  /\ last.ioOk
  /\ last.res = Ok([shape |-> <<2>>, data |-> [c \in Indices(<<2>>) |-> 1]])

(***************************************************************************)
(* A writer overwriting the child "x" of the root while a reader opens and *)
(* resolves it.  overwrite makes two calls on the backend, the delete and  *)
(* the write, and holds no lock between them: each call is one step, and   *)
(* the reader may take its step between the two.  last keeps where the     *)
(* writer is (pc), the value in place before the delete (old), the value   *)
(* of the overwrite (new), what the latest write returned (written) and    *)
(* what the reader saw (obs).                                              *)
(***************************************************************************)
Shared == <<"x">>

\* The container a write returns for a value at the shared name.
ContainerOf(v) == IF IsDatasetType(v.ty) THEN Dataset(Shared) ELSE Group(Shared)

\* The first call of overwrite as it would be if the old content were left in
\* place for the write to replace.
overwrite_delete_deferred(s, container, delOk) ==
  LET path == container.path IN
  IF ~path_parent(path).some
  THEN [res |-> Panic("unwrap on None: parent"), store |-> s]
  ELSE LET group == File_open_group(s, path_parent(path).v) IN
       IF ~IsOk(group) THEN [res |-> group, store |-> s]
       ELSE [res |-> Ok(Unit), store |-> s]

\* WriteData::overwrite up to and including group.delete(name)?
overwrite_delete(s, container, delOk) ==
  LET path == container.path IN
  IF ~path_parent(path).some
  THEN [res |-> Panic("unwrap on None: parent"), store |-> s]
  ELSE LET group == File_open_group(s, path_parent(path).v) IN
       IF ~IsOk(group) THEN [res |-> group, store |-> s]
       ELSE GroupOp_delete(s, group.val, path_file_name(path).v[1], delOk)

\* WriteData::overwrite from self.write(&group, name) on
overwrite_write(s, container, v, wrOk) ==
  LET path == container.path IN
  WriteData_write(s, path_parent(path).v, path_file_name(path).v[1], v, wrOk)

\* What a reader gets from the name: the container opened, and through it the
\* tag, the logical type resolved and the payload.
NoObs == [open |-> Err("not read")]

Observe(s) ==
  LET c == DataContainer_open(s, Root, Shared[1]) IN
  IF ~IsOk(c) THEN [open |-> c]
  ELSE [open |-> c, tag |-> s[c.val.path].tag, ty |-> encoding_type(s, c.val),
        val |-> s[c.val.path].val]

InitCon ==
  \E v \in WriteValues :
    /\ store = Written(EmptyFile, Shared, v)
    /\ last = [op |-> "create", pc |-> "idle", old |-> v, new |-> v,
               written |-> Ok(ContainerOf(v)), obs |-> NoObs]

\* The writer enters overwrite and makes its first call.
OverwriteDeleteStep ==
  \E c \in {h \in Containers(store) : h.path = Shared}, v \in WriteValues, delOk \in BOOLEAN :
    LET d == overwrite_delete(store, c, delOk) IN
    /\ last.pc = "idle"
    /\ store' = d.store
    /\ last' = IF IsOk(d.res)
               THEN [last EXCEPT !.op = "overwrite_delete", !.pc = "deleted",
                                 !.old = last.new, !.new = v]
               ELSE [last EXCEPT !.op = "overwrite_delete"]

\* The writer makes its second call and returns.
OverwriteWriteStep ==
  \E wrOk \in BOOLEAN :
    LET w == overwrite_write(store, ContainerOf(last.old), last.new, wrOk) IN
    /\ last.pc = "deleted"
    /\ store' = w.store
    /\ last' = [last EXCEPT !.op = "overwrite_write", !.pc = "idle", !.written = w.res]

\* The reader opens the name and resolves what it opened, at any time.
ReaderStep ==
  /\ last' = [last EXCEPT !.op = "read", !.obs = Observe(store)]
  /\ UNCHANGED store

NextCon == OverwriteDeleteStep \/ OverwriteWriteStep \/ ReaderStep

SpecCon == InitCon /\ [][NextCon]_vars

\* All of one value, as a reader gets it.
Whole(v) ==
  [open |-> Ok(ContainerOf(v)), tag |-> encoding_tag(v.ty), ty |-> Ok(v.ty), val |-> v.val]

\* C14 (as amended): a reader that takes its step while the writer is not between
\* the delete and the write of overwrite gets all of the old value and tag or all
\* of the new value and tag, or - after an overwrite whose write failed - finds
\* the name absent; a reader that takes its step after the delete and before the
\* write finds the name absent (open fails with NotFound).
C14_ReaderSeesWholeValueOrAbsence ==
  (last.op = "read") =>
    /\ last.pc = "deleted" => last.obs = [open |-> Err(E_NotFound)]
    /\ (last.pc = "idle" /\ IsOk(last.written)) =>
         (last.obs = Whole(last.old) \/ last.obs = Whole(last.new))
    /\ (last.pc = "idle" /\ ~IsOk(last.written)) => last.obs = [open |-> Err(E_NotFound)]

\* The reader between the delete and the write of an overwrite of the scalar by
\* the sparse matrix.
C14_Witness ==
  /\ last.op = "read"
  /\ last.pc = "deleted"
  /\ last.old = Value(Scalar("I32"), 42)
  /\ last.new = Value(CsrMatrix("F32"), 9)
  /\ last.obs = [open |-> Err(E_NotFound)]

\* C14 as claimed: outside the delete and the write of overwrite every reader
\* gets all of the old value or all of the new one, and between them it finds the
\* name absent.
C14_ReaderSeesOldOrNewUnlessInterleaved ==
  (last.op = "read") =>
    /\ last.pc = "deleted" => last.obs = [open |-> Err(E_NotFound)]
    /\ last.pc = "idle" => (last.obs = Whole(last.old) \/ last.obs = Whole(last.new))

(***************************************************************************)
(* encoding_type on a container of the variant its tag does not go with    *)
(* (specification SpecEnc).                                                *)
(***************************************************************************)
\* The tags whose arm looks at neither the variant nor the content.
VariantFreeTags == {"string", "categorical", "string-array", "dataframe", "mapping", "dict"}

\* C15: encoding_type returns an Err, neither a logical type nor a panic, when
\* the tag goes with the other variant: a Group tagged "numeric-scalar" or
\* "array" fails with 'Expecting Dataset', a Dataset tagged "csr_matrix" fails
\* with 'Expecting Group', and a Group tagged "csr_matrix" with no dataset as its
\* "data" child fails.  Under the tags "string", "categorical", "string-array",
\* "dataframe", "mapping" and "dict" the result is a logical type and is the same
\* for every Group and every Dataset that carries the tag.
C15_WrongVariantIsAnError ==
  (last.op = "encoding_type") =>
    /\ (LastIsGroup /\ LastTag \in {"numeric-scalar", "array"}) =>
         last.res = Err(E_ExpectingDataset)
    /\ (LastIsDataset /\ LastTag = "csr_matrix") => last.res = Err(E_ExpectingGroup)
    /\ (LastIsGroup /\ LastTag = "csr_matrix" /\ LastDataChild.kind # "dataset") =>
         IsErr(last.res)
    /\ LastTag \in VariantFreeTags =>
         /\ IsOk(last.res)
         /\ \A f \in EncFiles :
              f[<<"x">>].tag = LastTag =>
                \A c \in {h \in Containers(f) : h.path = <<"x">>} :
                  encoding_type(f, c) = last.res

\* A group tagged "array".
C15_Witness ==
  /\ last.op = "encoding_type"
  /\ last.container = Group(<<"x">>)
  /\ LastTag = "array"
  /\ last.res = Err(E_ExpectingDataset)

(***************************************************************************)
(* The Python binding: to_indices on a slice, and AnnData.subset.          *)
(***************************************************************************)
MaxLen == 3
MaxStep == 2

\* An optional integer of a Python slice: None, or the integer.
PyNone == [some |-> FALSE, v |-> 0]
PyInt(i) == [some |-> TRUE, v |-> i]

PySlice(start, stop, step) == [start |-> start, stop |-> stop, step |-> step]

Max(a, b) == IF a > b THEN a ELSE b

\* PySlice::indices (Python's slice.indices): the start, stop and step of the
\* slice over a sequence of the given length; a step of zero is a ValueError.
PySlice_indices(slice, length) ==
  LET step == IF slice.step.some THEN slice.step.v ELSE 1
      lower == IF step > 0 THEN 0 ELSE 0 - 1
      upper == IF step > 0 THEN length ELSE length - 1
      Adjust(i) == IF i < 0 THEN Max(i + length, lower) ELSE Min(i, upper)
  IN IF step = 0 THEN Err("ValueError: slice step cannot be zero")
     ELSE Ok([start |-> IF slice.start.some THEN Adjust(slice.start.v)
                        ELSE (IF step < 0 THEN upper ELSE lower),
              stop |-> IF slice.stop.some THEN Adjust(slice.stop.v)
                       ELSE (IF step < 0 THEN lower ELSE upper),
              step |-> step])

\* (start ..= stop).step_by(step).collect(): from start by step, up to and
\* including stop.
RangeInclusiveStepBy(start, stop, step) ==
  IF start > stop THEN <<>>
  ELSE [k \in 1..((stop - start) \div step + 1) |-> start + (k - 1) * step]

\* to_indices on a slice
to_indices(input, length) ==
  LET slice == PySlice_indices(input, length) IN
  IF ~IsOk(slice) THEN slice
  ELSE IF slice.val.start < 0 \/ slice.val.stop < 0 \/ slice.val.step < 0
  THEN Panic("unwrap on Err: try_into")
  ELSE Ok(RangeInclusiveStepBy(slice.val.start, slice.val.stop, slice.val.step))

\* AnnData::subset with each index given as a slice or not given: the call it
\* makes on the data and the indices it passes.
NoCall == [call |-> "none", i |-> <<>>, j |-> <<>>]

AnnData_subset(n_obs, n_vars, obs_indices, var_indices) ==
  LET i == to_indices(obs_indices.v, n_obs)
      j == to_indices(var_indices.v, n_vars)
  IN IF obs_indices.some
     THEN (IF ~IsOk(i) THEN [res |-> i, made |-> NoCall]
           ELSE IF var_indices.some
           THEN (IF ~IsOk(j) THEN [res |-> j, made |-> NoCall]
                 ELSE [res |-> Ok(Unit), made |-> [call |-> "subset", i |-> i.val, j |-> j.val]])
           ELSE [res |-> Ok(Unit), made |-> [call |-> "subset_obs", i |-> i.val, j |-> <<>>]])
     ELSE IF var_indices.some
     THEN (IF ~IsOk(j) THEN [res |-> j, made |-> NoCall]
           ELSE [res |-> Ok(Unit), made |-> [call |-> "subset_var", i |-> <<>>, j |-> j.val]])
     ELSE [res |-> Ok(Unit), made |-> NoCall]

\* The integers a slice is built from.
SliceInts == {PyNone} \cup {PyInt(i) : i \in (0 - MaxLen - 1)..(MaxLen + 1)}
SliceSteps == {PyNone} \cup {PyInt(i) : i \in (0 - MaxStep)..MaxStep}

InitIdx ==
  /\ store = EmptyFile
  /\ \E length \in 0..MaxLen, start \in SliceInts, stop \in SliceInts, step \in SliceSteps :
       last = [op |-> "slice", input |-> PySlice(start, stop, step), length |-> length]

ToIndicesOp ==
  /\ last.op = "slice"
  /\ last' = [op |-> "to_indices", input |-> last.input, length |-> last.length,
              res |-> to_indices(last.input, last.length)]
  /\ UNCHANGED store

\* subset of data with as many observations as variables, the slice given for
\* the observations, the variables or both.
SubsetOp ==
  \E obs \in BOOLEAN, var \in BOOLEAN :
    LET opt(given) == [some |-> given, v |-> last.input]
        r == AnnData_subset(last.length, last.length, opt(obs), opt(var))
    IN /\ last.op = "slice"
       /\ last' = [op |-> "subset", input |-> last.input, length |-> last.length,
                   obs |-> obs, var |-> var, res |-> r.res, made |-> r.made]
       /\ UNCHANGED store

NextIdx == ToIndicesOp \/ SubsetOp

SpecIdx == InitIdx /\ [][NextIdx]_vars

\* The indices a Python slice selects over a sequence of a length: from the
\* adjusted start by step, short of the adjusted stop.
PySelected(input, length) ==
  LET s == PySlice_indices(input, length).val
      n == IF s.step > 0
           THEN (IF s.start >= s.stop THEN 0 ELSE (s.stop - s.start - 1) \div s.step + 1)
           ELSE (IF s.start <= s.stop THEN 0 ELSE (s.start - s.stop - 1) \div (0 - s.step) + 1)
  IN [k \in 1..n |-> s.start + (k - 1) * s.step]

\* C16: for a slice (of a step other than zero) to_indices returns exactly the
\* indices the slice selects over a sequence of `length` elements, start
\* inclusive, stop exclusive, by step: every index returned is below length and
\* slice(None) gives 0..length-1; and these are the indices subset passes on.
C16_SliceIndicesAsPython ==
  /\ (last.op = "to_indices" /\ IsOk(PySlice_indices(last.input, last.length))) =>
       /\ last.res = Ok(PySelected(last.input, last.length))
       /\ \A k \in 1..Len(last.res.val) : last.res.val[k] < last.length
       /\ last.input = PySlice(PyNone, PyNone, PyNone) =>
            last.res = Ok([k \in 1..last.length |-> k - 1])
  /\ (last.op = "subset" /\ IsOk(PySlice_indices(last.input, last.length))) =>
       /\ last.obs => last.made.i = PySelected(last.input, last.length)
       /\ last.var => last.made.j = PySelected(last.input, last.length)

====
